---- MODULE Spec2Model ----
(***************************************************************************)
(* Model of the nested-ESXi kickstart client (src/main.go): the fleet      *)
(* controller in main, the per-host worker vmCreateHandler, the guest-IP   *)
(* wait, the installer-service requests and the pure helpers for naming,   *)
(* addressing and device lists.                                            *)
(*                                                                         *)
(* Strings whose content matters (name templates, hostnames) are sequences *)
(* of one-character strings.  IPv4 addresses are sequences of four octets. *)
(***************************************************************************)
EXTENDS Integers, Sequences, FiniteSets, TLC

\* ------------------------------------------------------------------ bounds
\* Largest replica count of the concurrent specification.
MaxReplica == 2
\* Largest replica count of the configuration-only specification.
MaxFleet == 3
\* Largest number of configured storages.
MaxStorages == 9
\* Largest replica count of the specification with fair scheduling.
MaxLive == 2

\* ------------------------------------------------------------- characters
Digits == <<"0", "1", "2", "3", "4", "5", "6", "7", "8", "9">>

IsDigit(c) == \E k \in 1..10 : Digits[k] = c

DigitVal(c) == (CHOOSE k \in 1..10 : Digits[k] = c) - 1

\* strings.Split(s, sep) for a one-character separator: the pieces between
\* the separators, <<s>> when sep does not occur.
RECURSIVE SplitFrom(_, _, _, _, _)
SplitFrom(s, sep, i, cur, acc) ==
    IF i > Len(s) THEN Append(acc, cur)
    ELSE IF s[i] = sep THEN SplitFrom(s, sep, i + 1, <<>>, Append(acc, cur))
    ELSE SplitFrom(s, sep, i + 1, Append(cur, s[i]), acc)

Split(s, sep) == SplitFrom(s, sep, 1, <<>>, <<>>)

\* Value of a non-empty run of decimal digits.
RECURSIVE DigitsValue(_, _, _)
DigitsValue(s, i, acc) ==
    IF i > Len(s) THEN acc ELSE DigitsValue(s, i + 1, acc * 10 + DigitVal(s[i]))

\* strconv.Atoi: optional sign, then one or more decimal digits.
Atoi(s) ==
    LET signed == Len(s) > 0 /\ s[1] \in {"+", "-"}
        body == IF signed THEN SubSeq(s, 2, Len(s)) ELSE s
    IN  IF Len(body) = 0 \/ \E k \in 1..Len(body) : ~IsDigit(body[k])
        THEN [ok |-> FALSE, val |-> 0]
        ELSE [ok |-> TRUE,
              val |-> IF signed /\ s[1] = "-" THEN 0 - DigitsValue(body, 1, 0)
                      ELSE DigitsValue(body, 1, 0)]

\* Decimal digits of a natural number.
RECURSIVE NatDigits(_)
NatDigits(n) ==
    IF n < 10 THEN <<Digits[n + 1]>>
    ELSE Append(NatDigits(n \div 10), Digits[(n % 10) + 1])

\* The text fmt prints for an int under %d ("%d" of -3 is "-3").
Itoa(n) == IF n < 0 THEN <<"-">> \o NatDigits(0 - n) ELSE NatDigits(n)

RECURSIVE Repeat(_, _)
Repeat(c, n) == IF n <= 0 THEN <<>> ELSE <<c>> \o Repeat(c, n - 1)

\* fmt's integer formatting for verb d with the flags 0 and - and an optional
\* width: zero padding goes between sign and digits and counts the sign,
\* a minus flag cancels the zero flag and pads with spaces on the right.
FmtInteger(n, zero, minus, widPresent, wid) ==
    LET mag == NatDigits(IF n < 0 THEN 0 - n ELSE n)
        prec == IF zero /\ widPresent
                THEN (IF n < 0 THEN wid - 1 ELSE wid) ELSE 0
        body == Repeat("0", prec - Len(mag)) \o mag
        txt == IF n < 0 THEN <<"-">> \o body ELSE body
    IN  IF ~widPresent \/ Len(txt) >= wid THEN txt
        ELSE IF minus THEN txt \o Repeat(" ", wid - Len(txt))
        ELSE Repeat(" ", wid - Len(txt)) \o txt

\* Position of the first character at or after i that is not a flag.
RECURSIVE SkipFlags(_, _)
SkipFlags(f, i) ==
    IF i <= Len(f) /\ f[i] \in {"0", "-"} THEN SkipFlags(f, i + 1) ELSE i

\* Position of the first character at or after i that is not a digit.
RECURSIVE SkipDigits(_, _)
SkipDigits(f, i) ==
    IF i <= Len(f) /\ IsDigit(f[i]) THEN SkipDigits(f, i + 1) ELSE i

\* fmt.Sprintf(format, j) for a format holding literal text and one integer
\* verb %[flags][width]d; the text around the verb is copied.
RECURSIVE SprintfFrom(_, _, _, _)
SprintfFrom(f, i, j, out) ==
    IF i > Len(f) THEN out
    ELSE IF f[i] # "%" THEN SprintfFrom(f, i + 1, j, Append(out, f[i]))
    ELSE LET a == SkipFlags(f, i + 1)
             b == SkipDigits(f, a)
             flags == SubSeq(f, i + 1, a - 1)
             minus == \E k \in 1..Len(flags) : flags[k] = "-"
             zero == (\E k \in 1..Len(flags) : flags[k] = "0") /\ ~minus
             widPresent == b > a
             wid == IF widPresent THEN DigitsValue(SubSeq(f, a, b - 1), 1, 0) ELSE 0
         IN  SprintfFrom(f, b + 1, j,
                         out \o FmtInteger(j, zero, minus, widPresent, wid))

Sprintf(f, j) == SprintfFrom(f, 1, j, <<>>)

\* --------------------------------------------------------- name templates
\* calcurateNamePrefix: the start number and the Sprintf format of a
\* name_prefix template.  status is "ok", "fatal" (log.Fatalf) or "panic"
\* (a slice index out of range).
calcurateNamePrefix(namePrefix) ==
    LET parts == Split(namePrefix, "{")
        bad(st) == [status |-> st, n |-> 0, format |-> <<>>]
    IN  IF Len(parts) < 2 THEN bad("panic")
        ELSE
        LET prefix == parts[1]
            formatDetails == Split(parts[2], "}")[1]
            fparts == Split(formatDetails, ",")
            n == Atoi(fparts[1])
        IN  IF ~n.ok THEN bad("fatal")
            ELSE IF Len(fparts) > 1
            THEN LET eq == Split(fparts[2], "=")
                 IN  IF Len(eq) < 2 THEN bad("panic")
                     ELSE LET padding == Atoi(eq[2])
                          IN  IF ~padding.ok THEN bad("fatal")
                              ELSE [status |-> "ok", n |-> n.val,
                                    format |-> prefix \o <<"%", "0">>
                                               \o Itoa(padding.val) \o <<"d">>]
            ELSE [status |-> "ok", n |-> n.val,
                  format |-> prefix \o <<"%", "0">> \o Itoa(0) \o <<"d">>]

\* Variant of HostnameOf that numbers the hosts from one past the start.
HostnameOf_OffByOne(format, domain, j) ==
    Sprintf(format \o <<".">> \o domain, j + 1)

\* The hostname main builds for loop counter j (main.go line 646).
HostnameOf(format, domain, j) == Sprintf(format \o <<".">> \o domain, j)

\* ---------------------------------------------------------------- addresses
\* Bitwise AND of two octets.
RECURSIVE BitAnd(_, _, _)
BitAnd(a, b, bits) ==
    IF bits = 0 THEN 0
    ELSE ((a % 2) * (b % 2)) + 2 * BitAnd(a \div 2, b \div 2, bits - 1)

\* net.IP.Mask for an IPv4 address and a four-byte mask.
Mask(ip, mask) == [k \in 1..4 |-> BitAnd(ip[k], mask[k], 8)]

\* Variant of validateNetworkAddr that compares the first three octets and
\* ignores the netmask.
validateNetworkAddr_Prefix24(c) ==
    SubSeq(c.gateway, 1, 3) = SubSeq(c.startIP, 1, 3)

\* validateNetworkAddr: TRUE when it returns nil, FALSE when it returns the
\* "not on same subnet" error.
validateNetworkAddr(c) ==
    LET network == Mask(c.startIP, c.netmask)
        gwnetwork == Mask(c.gateway, c.netmask)
    IN  gwnetwork = network

\* The address main hands to worker i: a copy of the start address whose
\* last byte had byte(i) added in 8-bit arithmetic (main.go lines 647-649).
AllocIP(startIP, i) == [startIP EXCEPT ![4] = (startIP[4] + (i % 256)) % 256]

\* -------------------------------------------------------------- config sets
T_esxi == <<"e", "s", "x", "i">>

T_fixed == <<"f", "i", "x", "e", "d">>

\* A name_prefix case: the template text, and for a well-formed template the
\* prefix, start and width it was written from (width -1: no fixed= part).
NameCase(text, ok, prefix, start, width) ==
    [text |-> text, ok |-> ok, prefix |-> prefix, start |-> start,
     width |-> width]

BadNameCase(text) == NameCase(text, FALSE, <<>>, 0, -1)

NameCases ==
    { NameCase(T_esxi \o <<"{", "1", ",">> \o T_fixed \o <<"=", "3", "}">>,
               TRUE, T_esxi, 1, 3),
      NameCase(T_esxi \o <<"{", "1", ",", " ">> \o T_fixed \o <<"=", "2", "}">>,
               TRUE, T_esxi, 1, 2),
      NameCase(T_esxi \o <<"{", "9", "}">>, TRUE, T_esxi, 9, -1),
      NameCase(<<"n", "{", "9", "8", ",">> \o T_fixed \o <<"=", "2", "}">>,
               TRUE, <<"n">>, 98, 2),
      NameCase(<<"n", "{", "7", ",">> \o T_fixed \o <<"=", "0", "}">>,
               TRUE, <<"n">>, 7, 0),
      BadNameCase(T_esxi),
      BadNameCase(T_esxi \o <<"{", "a", "}">>),
      BadNameCase(T_esxi \o <<"{", "1", ",">> \o T_fixed \o <<"=", "x", "}">>),
      BadNameCase(T_esxi \o <<"{", "1", ",">> \o T_fixed \o <<"}">>) }

GoodNameCase ==
    NameCase(T_esxi \o <<"{", "1", ",">> \o T_fixed \o <<"=", "2", "}">>,
             TRUE, T_esxi, 1, 2)

Domains == { <<>>, <<"l", "a", "b">> }

StartIPs == { <<10, 0, 0, 10>>, <<10, 0, 0, 50>>, <<10, 0, 0, 254>>, <<10, 0, 1, 255>> }

Netmasks == { <<255, 255, 255, 0>>, <<255, 255, 254, 0>>, <<255, 255, 255, 252>> }

Gateways == { <<10, 0, 0, 1>>, <<10, 0, 1, 1>>, <<10, 0, 0, 253>>, <<10, 0, 0, 9>> }

StorageList(n) == [k \in 1..n |-> [datastore |-> "ds", capacityGB |-> k]]

BaseConfig ==
    [replica |-> 1,
     startIP |-> <<10, 0, 0, 50>>,
     netmask |-> <<255, 255, 255, 0>>,
     gateway |-> <<10, 0, 0, 1>>,
     namePrefix |-> GoodNameCase.text,
     nameCase |-> GoodNameCase,
     domain |-> <<"l", "a", "b">>,
     isofilename |-> "esxi.iso",
     bootPortGroup |-> "bootpg",
     networks |-> <<"pg1", "pg2">>,
     storages |-> StorageList(1),
     changemac |-> FALSE,
     catalog |-> {"7.0.3", "absent"},
     hardware |-> {"normal", "nolabel"},
     statuses |-> {"2xx"},
     backings |-> {TRUE}]

\* ip.String() of a four-byte address: dotted decimal.
IPString(ip) ==
    Itoa(ip[1]) \o <<".">> \o Itoa(ip[2]) \o <<".">> \o Itoa(ip[3])
        \o <<".">> \o Itoa(ip[4])

\* The zero value of RequestBody (main.go line 268).
EmptyRequestBody == [Macaddress |-> <<>>, Hostname |-> <<>>, IP |-> <<>>]

\* A nil *types.VirtualVmxnet3 (main.go line 269).
NoDevice == [kind |-> "nil", label |-> "", mac |-> <<>>, backing |-> ""]


\* ------------------------------------------------------------ device lists
\* A device descriptor; fields a kind does not use keep these defaults.
Device(kind, key) ==
    [kind |-> kind, key |-> key, unit |-> -1, controllerKey |-> 0,
     capacityKB |-> 0, datastore |-> "", fileIndex |-> -1, backing |-> "",
     label |-> "", mac |-> <<>>]

\* VirtualDeviceList.NewKey as called at main.go lines 541, 553, 590: one
\* below the smallest key in use, starting under -200.
RECURSIVE MinKey(_, _, _)
MinKey(devices, k, best) ==
    IF k > Len(devices) THEN best
    ELSE MinKey(devices, k + 1,
                IF devices[k].key < best THEN devices[k].key ELSE best)

NewKey(devices) == MinKey(devices, 1, -200) - 1

\* createScsiController: the list with the controller appended, and its key.
createScsiController(devices) ==
    LET ctl == Device("scsi", NewKey(devices))
    IN  [devices |-> Append(devices, ctl), key |-> ctl.key]

\* Variant of DiskUnitNumber that bumps only the indices above 7.
DiskUnitNumber_LateBump(i) == IF i > 7 THEN i + 1 ELSE i

\* The unit number createVirtualDisk gives to the disk of index i
\* (main.go lines 562-565).
DiskUnitNumber(i) == IF i >= 7 THEN i + 1 ELSE i

\* createVirtualDisk: the list with the disk of index i appended.
createVirtualDisk(i, devices, diskSizeGB, scsictlKey, datastore) ==
    Append(devices,
           [Device("disk", NewKey(devices)) EXCEPT
               !.unit = DiskUnitNumber(i),
               !.controllerKey = scsictlKey,
               !.capacityKB = diskSizeGB * 1024 * 1024,
               !.datastore = datastore,
               !.fileIndex = i])

\* createNetwork: the list with one vmxnet3 adapter of that backing appended.
createNetwork(devices, networkBacking) ==
    Append(devices,
           [Device("vmxnet3", NewKey(devices)) EXCEPT !.backing = networkBacking])

\* main.go lines 223-225: the loop over the configured storages, from index i.
RECURSIVE AddDisks(_, _, _, _)
AddDisks(devices, storages, i, scsictlKey) ==
    IF i >= Len(storages) THEN devices
    ELSE AddDisks(createVirtualDisk(i, devices, storages[i + 1].capacityGB,
                                    scsictlKey, storages[i + 1].datastore),
                  storages, i + 1, scsictlKey)

\* Variant of NetworkAt that looks every position up under its listed name.
NetworkAt_AsListed(c, i) == c.networks[i + 1]

\* The network looked up for position i of the configured networks
\* (main.go lines 227-229).
NetworkAt(c, i) == IF i = 0 THEN c.bootPortGroup ELSE c.networks[i + 1]

\* main.go lines 226-239: the loop over the configured networks, from index i.
RECURSIVE AddNetworks(_, _, _)
AddNetworks(devices, c, i) ==
    IF i >= Len(c.networks) THEN devices
    ELSE AddNetworks(createNetwork(devices, NetworkAt(c, i)), c, i + 1)

\* main.go lines 221-239: the device list of one VM.
BuildDevices(c) ==
    LET s == createScsiController(<<>>)
    IN  AddNetworks(AddDisks(s.devices, c.storages, 0, s.key), c, 0)

\* The disks of a device list, in list order.
DisksOf(devices) == SelectSeq(devices, LAMBDA d : d.kind = "disk")

\* The adapters of a device list, in list order.
NicsOf(devices) == SelectSeq(devices, LAMBDA d : d.kind = "vmxnet3")

\* ------------------------------------------------------- backend's answers
\* The MAC address the platform assigns to adapter k of host i.
MacOf(i, k) == <<"a", "a", ":", "0", Digits[i + 1], ":", "0", Digits[k + 1]>>

\* Number of adapters among the first k devices.
RECURSIVE NicCount(_, _)
NicCount(devices, k) ==
    IF k = 0 THEN 0
    ELSE NicCount(devices, k - 1) + (IF devices[k].kind = "vmxnet3" THEN 1 ELSE 0)

\* What config.hardware.device holds after creation.  "normal": the k-th
\* adapter is labelled "Network adapter k" and has a MAC; "nomac": adapter 1
\* has no MAC yet; "nolabel": no adapter carries the label "Network adapter 1".
HardwareKinds == {"normal", "nomac", "nolabel"}

HardwareOf(devices, i, hw) ==
    [k \in 1..Len(devices) |->
        IF devices[k].kind # "vmxnet3" THEN devices[k]
        ELSE LET n == NicCount(devices, k)
             IN  [devices[k] EXCEPT
                    !.label = IF hw = "nolabel" THEN "Ethernet"
                              ELSE IF n = 1 THEN "Network adapter 1"
                              ELSE "Network adapter n",
                    !.mac = IF hw = "nomac" /\ n = 1 THEN <<>> ELSE MacOf(i, n)]]

\* Variant of ScanHardware that fills the request body with the address after
\* the worker's own.
RECURSIVE ScanHardware_NextIP(_, _, _, _, _)
ScanHardware_NextIP(hardware, k, hostname, ip, acc) ==
    IF k > Len(hardware) THEN acc
    ELSE ScanHardware_NextIP(hardware, k + 1, hostname, ip,
            IF hardware[k].kind = "vmxnet3" /\ hardware[k].label = "Network adapter 1"
            THEN [bootNet |-> hardware[k],
                  data |-> [Macaddress |-> hardware[k].mac,
                            Hostname |-> hostname,
                            IP |-> IPString([ip EXCEPT ![4] = (ip[4] + 1) % 256])]]
            ELSE acc)

\* main.go lines 268-292: the scan of the hardware list; every vmxnet3 device
\* labelled "Network adapter 1" overwrites bootNet and data.
RECURSIVE ScanHardware(_, _, _, _, _)
ScanHardware(hardware, k, hostname, ip, acc) ==
    IF k > Len(hardware) THEN acc
    ELSE ScanHardware(hardware, k + 1, hostname, ip,
            IF hardware[k].kind = "vmxnet3" /\ hardware[k].label = "Network adapter 1"
            THEN [bootNet |-> hardware[k],
                  data |-> [Macaddress |-> hardware[k].mac,
                            Hostname |-> hostname,
                            IP |-> IPString(ip)]]
            ELSE acc)

\* The ESXi version strings the installer's catalog may hold for the
\* configured ISO file; "absent" stands for a catalog without the file.
CatalogAnswers == {"absent", "", "6.0.0", "6.5.0", "6.7.0", "7.0.3", "8.0.0"}

\* Variant of GuestIdOf that sends 6.7.0 to the default branch.
GuestIdOf_67Default(answer) ==
    LET esxiVersion == IF answer = "absent" THEN "" ELSE answer
    IN  IF esxiVersion = "" THEN "fatal"
        ELSE IF esxiVersion = "6.0.0" THEN "vmkernel6Guest"
        ELSE IF esxiVersion = "6.5.0" THEN "vmkernel65Guest"
        ELSE "vmkernel7Guest"

\* decideGuestId lines 442-458: the lookup leaves esxiVersion empty when the
\* file is absent; the switch maps the version, "" being fatal.
GuestIdOf(answer) ==
    LET esxiVersion == IF answer = "absent" THEN "" ELSE answer
    IN  IF esxiVersion = "" THEN "fatal"
        ELSE IF esxiVersion = "6.0.0" THEN "vmkernel6Guest"
        ELSE IF esxiVersion \in {"6.5.0", "6.7.0"} THEN "vmkernel65Guest"
        ELSE "vmkernel7Guest"

\* strings.Replace(s, ":", "-", -1).
ReplaceColons(s) == [k \in 1..Len(s) |-> IF s[k] = ":" THEN "-" ELSE s[k]]

\* Variant of DeletePath that keeps the colons of the MAC address.
DeletePath_KeepColons(reqBody) ==
    IF Len(reqBody.Macaddress) = 0 THEN <<"/", "k", "s">>
    ELSE <<"/", "k", "s", "/">> \o reqBody.Macaddress

\* sendApiRequest lines 512-514: the path of the DELETE request.
DeletePath(reqBody) ==
    IF Len(reqBody.Macaddress) = 0 THEN <<"/", "k", "s">>
    ELSE <<"/", "k", "s", "/">> \o ReplaceColons(reqBody.Macaddress)

\* The strings a guest-IP read may return for host i: the allocated address,
\* nothing yet, or the address the boot network's DHCP handed out.
GuestReads(ip) == {IPString(ip), <<>>, IPString(<<192, 168, 0, 9>>)}

\* ------------------------------------------------------------------- state
VARIABLES
    cfg,          \* the parsed YAML configuration and the -changemac flag
    proc,         \* "running", "fatal" (log.Fatalf), "panic", "exited"
    mainPc,       \* position of main
    loopI,        \* loop counter i of main's spawn loop
    namePar,      \* result of calcurateNamePrefix
    wk,           \* started workers: index -> worker record
    wgCount,      \* the sync.WaitGroup counter
    waiter,       \* the goroutine of main.go line 653: "none", "waiting", "closed"
    sigPending,   \* an interrupt is buffered in sigChannel
    ctxCancelled, \* cancel() was called on the shared context
    outcome       \* the line main logged last: "none", "invalid address",
                  \* "bad name_prefix", "completed", "interrupted"

vars == <<cfg, proc, mainPc, loopI, namePar, wk, wgCount, waiter,
          sigPending, ctxCancelled, outcome>>

NoWorkers == [x \in {} |-> x]

Started == DOMAIN wk

InitWith(configs) ==
    /\ cfg \in configs
    /\ proc = "running"
    /\ mainPc = "validate"
    /\ loopI = 0
    /\ namePar = [status |-> "none", n |-> 0, format |-> <<>>]
    /\ wk = NoWorkers
    /\ wgCount = 0
    /\ waiter = "none"
    /\ sigPending = FALSE
    /\ ctxCancelled = FALSE
    /\ outcome = "none"

\* The process ends with the given status.  Its memory ends with it: main's
\* position, the channel buffer, the WaitGroup and the context are reset.
\* What stays is what the run did to the outside and logged: the workers'
\* call histories (with the position each worker was at) and the line main
\* logged last.
Die(status, logged) ==
    /\ proc' = status
    /\ outcome' = logged
    /\ mainPc' = "dead"
    /\ loopI' = 0
    /\ wgCount' = 0
    /\ waiter' = "dead"
    /\ sigPending' = FALSE
    /\ ctxCancelled' = FALSE
    /\ UNCHANGED <<cfg, namePar>>

\* ----------------------------------------------------------- main, startup
\* main.go lines 637-640: validate, log.Fatalf on error.
MainValidate ==
    /\ proc = "running" /\ mainPc = "validate"
    /\ IF validateNetworkAddr(cfg)
       THEN /\ mainPc' = "parse"
            /\ UNCHANGED <<cfg, proc, loopI, namePar, wgCount, waiter,
                           sigPending, ctxCancelled, outcome>>
       ELSE Die("fatal", "invalid address")
    /\ UNCHANGED wk

\* main.go line 642: parse the name template.
MainParse ==
    /\ proc = "running" /\ mainPc = "parse"
    /\ LET r == calcurateNamePrefix(cfg.namePrefix)
       IN  IF r.status = "ok"
           THEN /\ namePar' = r
                /\ mainPc' = "loop"
                /\ UNCHANGED <<cfg, proc, loopI, wgCount, waiter, sigPending,
                               ctxCancelled, outcome>>
           ELSE Die(r.status, IF r.status = "fatal" THEN "bad name_prefix"
                              ELSE outcome)
    /\ UNCHANGED wk

\* The worker record at the go statement of main.go line 650.
NewWorker(hostname, ip) ==
    [pc |-> "connect", hostname |-> hostname, ip |-> ip, calls |-> <<>>,
     guestId |-> "", devices |-> <<>>, data |-> EmptyRequestBody,
     bootNet |-> NoDevice, err |-> FALSE, task |-> "none"]

\* main.go lines 644-651: one iteration of the spawn loop.
MainSpawn ==
    /\ proc = "running" /\ mainPc = "loop"
    /\ loopI < cfg.replica
    /\ wgCount' = wgCount + 1
    /\ wk' = (loopI :> NewWorker(
                 HostnameOf(namePar.format, cfg.domain, namePar.n + loopI),
                 AllocIP(cfg.startIP, loopI))) @@ wk
    /\ loopI' = loopI + 1
    /\ UNCHANGED <<cfg, proc, mainPc, namePar, waiter, sigPending,
                   ctxCancelled, outcome>>

\* -------------------------------------------------------- main, controller
\* main.go lines 644, 652-658: the loop ends, main starts the goroutine that
\* waits on the WaitGroup and blocks in the select.
MainStartWaiter ==
    /\ proc = "running" /\ mainPc = "loop"
    /\ loopI >= cfg.replica
    /\ waiter' = "waiting"
    /\ mainPc' = "select"
    /\ UNCHANGED <<cfg, proc, loopI, namePar, wk, wgCount, sigPending,
                   ctxCancelled, outcome>>

\* Variant of WaiterClose that closes done without waiting for the counter.
WaiterClose_NoWait ==
    /\ proc = "running" /\ waiter = "waiting"
    /\ waiter' = "closed"
    /\ UNCHANGED <<cfg, proc, mainPc, loopI, namePar, wk, wgCount, sigPending,
                   ctxCancelled, outcome>>

\* main.go lines 654-655: wg.Wait() returns once the counter is zero, then
\* the goroutine closes done.
WaiterClose ==
    /\ proc = "running" /\ waiter = "waiting"
    /\ wgCount = 0
    /\ waiter' = "closed"
    /\ UNCHANGED <<cfg, proc, mainPc, loopI, namePar, wk, wgCount, sigPending,
                   ctxCancelled, outcome>>

\* The operating system delivers an interrupt; signal.Notify buffers it in
\* sigChannel (capacity 1, main.go lines 617-618).  Only main's select reads
\* the channel, so an interrupt that arrives earlier is the same as one that
\* arrives once main is at the select, and a later one is never read.
Interrupt ==
    /\ proc = "running" /\ mainPc = "select" /\ ~sigPending
    /\ sigPending' = TRUE
    /\ UNCHANGED <<cfg, proc, mainPc, loopI, namePar, wk, wgCount, waiter,
                   ctxCancelled, outcome>>

\* main.go lines 659-660, 620, 664: the select receives from the closed done
\* channel, main logs and returns, and its deferred cancel() runs.
MainSelectDone ==
    /\ proc = "running" /\ mainPc = "select"
    /\ waiter = "closed"
    /\ outcome' = "completed"
    /\ ctxCancelled' = TRUE
    /\ mainPc' = "returned"
    /\ UNCHANGED <<cfg, proc, loopI, namePar, wk, wgCount, waiter, sigPending>>

\* main.go lines 661-662, 620, 664: the select receives the buffered signal,
\* main logs and returns, and its deferred cancel() runs.
MainSelectSignal ==
    /\ proc = "running" /\ mainPc = "select"
    /\ sigPending
    /\ sigPending' = FALSE
    /\ outcome' = "interrupted"
    /\ ctxCancelled' = TRUE
    /\ mainPc' = "returned"
    /\ UNCHANGED <<cfg, proc, loopI, namePar, wk, wgCount, waiter>>

\* The process ends when main has returned; the goroutines end with it.
MainExit ==
    /\ proc = "running" /\ mainPc = "returned"
    /\ Die("exited", outcome)
    /\ UNCHANGED wk

\* ------------------------------------------------------------ worker steps
Call(op, res, arg) == [op |-> op, res |-> res, arg |-> arg]

None == <<>>

At(i, p) == proc = "running" /\ i \in Started /\ wk[i].pc = p

\* The process lives on: main and the shared objects are untouched.
Alive == UNCHANGED <<cfg, proc, mainPc, loopI, namePar, wgCount, waiter,
                     sigPending, ctxCancelled, outcome>>

\* The worker goes on to position p after the call.
Goto(i, p, call) ==
    /\ wk' = [wk EXCEPT ![i].pc = p, ![i].calls = Append(@, call)]
    /\ Alive

\* log.Fatalf: os.Exit(1) ends the process; deferred calls do not run.
Fatal(i, call) ==
    /\ wk' = [wk EXCEPT ![i].calls = Append(@, call)]
    /\ Die("fatal", outcome)

\* A run-time panic in a goroutine ends the process.
Panic(i, call) ==
    /\ wk' = [wk EXCEPT ![i].calls = Append(@, call)]
    /\ Die("panic", outcome)

\* Variant of Return without the deferred wg.Done().
Return_NoDone(i, call) ==
    /\ wk' = [wk EXCEPT ![i].pc = "returned", ![i].calls = Append(@, call)]
    /\ UNCHANGED <<cfg, proc, mainPc, loopI, namePar, wgCount, waiter,
                   sigPending, ctxCancelled, outcome>>

\* return from vmCreateHandler: the deferred wg.Done() of line 123 runs.
Return(i, call) ==
    /\ wk' = [wk EXCEPT ![i].pc = "returned", ![i].calls = Append(@, call)]
    /\ wgCount' = wgCount - 1
    /\ UNCHANGED <<cfg, proc, mainPc, loopI, namePar, waiter, sigPending,
                   ctxCancelled, outcome>>

\* Variant of Connect that treats a failed connection like a failed lookup:
\* the worker prints the error and returns.
Connect_Return(i) ==
    /\ At(i, "connect")
    /\ \/ Goto(i, "datacenter", Call("connect", "ok", None))
       \/ Return(i, Call("connect", "fail", None))

\* main.go lines 131-135: connect to vCenter.
Connect(i) ==
    /\ At(i, "connect")
    /\ \/ Goto(i, "datacenter", Call("connect", "ok", None))
       \/ Fatal(i, Call("connect", "fail", None))

\* main.go lines 136-143: find the datacenter.
FindDatacenter(i) ==
    /\ At(i, "datacenter")
    /\ \/ Goto(i, "vmlookup", Call("datacenter", "ok", None))
       \/ Return(i, Call("datacenter", "fail", None))

\* Variant of FindVirtualMachine that starts the create tasks for a VM that
\* was found.
FindVirtualMachine_NoSkip(i) ==
    /\ At(i, "vmlookup")
    /\ \/ Goto(i, "folders", Call("vmlookup", "notfound", None))
       \/ Return(i, Call("vmlookup", "fail", None))
       \/ Goto(i, "folders", Call("vmlookup", "found", None))

\* main.go lines 145-156: look the VM up by hostname.
FindVirtualMachine(i) ==
    /\ At(i, "vmlookup")
    /\ \/ Goto(i, "folders", Call("vmlookup", "notfound", None))
       \/ Return(i, Call("vmlookup", "fail", None))
       \/ Return(i, Call("vmlookup", "found", None))

\* main.go lines 158-164: the datacenter's folders.
GetFolders(i) ==
    /\ At(i, "folders")
    /\ \/ Goto(i, "folder", Call("folders", "ok", None))
       \/ Return(i, Call("folders", "fail", None))

\* main.go lines 166-170: find the target folder.
FindFolder(i) ==
    /\ At(i, "folder")
    /\ \/ Goto(i, "respool", Call("folder", "ok", None))
       \/ Return(i, Call("folder", "fail", None))

\* main.go lines 172-176: find the resource pool.
FindResourcePool(i) ==
    /\ At(i, "respool")
    /\ \/ Goto(i, "guestid", Call("respool", "ok", None))
       \/ Return(i, Call("respool", "fail", None))

\* main.go lines 178-182 with decideGuestId (lines 427-460): GET
\* /esxi-versions; transport and decode failures and an empty version are
\* log.Fatalf inside decideGuestId, which never returns an error.
DecideGuestId(i) ==
    /\ At(i, "guestid")
    /\ \/ Fatal(i, Call("GET", "fail", None))
       \/ Fatal(i, Call("GET", "undecodable", None))
       \/ \E answer \in cfg.catalog :
            LET g == GuestIdOf(answer)
            IN  IF g = "fatal"
                THEN Fatal(i, Call("GET", "ok", [version |-> answer]))
                ELSE /\ wk' = [wk EXCEPT ![i].pc = "buildspec",
                                         ![i].guestId = g,
                                         ![i].calls = Append(@,
                                            Call("GET", "ok", [version |-> answer]))]
                     /\ Alive

\* main.go lines 184-245: build the config spec and the device list; each
\* configured network is looked up and asked for its backing.
BuildSpec(i) ==
    /\ At(i, "buildspec")
    /\ IF Len(cfg.storages) = 0
       THEN Panic(i, Call("buildspec", "index out of range", None))
       ELSE \/ /\ wk' = [wk EXCEPT ![i].pc = "createvm",
                                   ![i].devices = BuildDevices(cfg),
                                   ![i].calls = Append(@,
                                      Call("network", "ok", None))]
               /\ Alive
            \/ /\ Len(cfg.networks) > 0
               /\ Fatal(i, Call("network", "fail", None))

\* main.go lines 246-250: submit the creation task.
CreateVM(i) ==
    /\ At(i, "createvm")
    /\ \/ /\ wk' = [wk EXCEPT ![i].pc = "createwait", ![i].task = "create",
                              ![i].calls = Append(@,
                                 Call("createvm", "ok",
                                      [name |-> wk[i].hostname,
                                       guestId |-> wk[i].guestId]))]
          /\ Alive
       \/ Fatal(i, Call("createvm", "fail", None))

\* task.WaitForResult (main.go lines 252, 304, 358, 381, 414): the worker
\* blocks until the backend reports the task's completion or failure.
WaitTask(i, from, to) ==
    /\ At(i, from)
    /\ \/ /\ wk' = [wk EXCEPT ![i].pc = to, ![i].task = "none",
                              ![i].calls = Append(@,
                                 Call("wait", "ok", [task |-> wk[i].task]))]
          /\ Alive
       \/ Fatal(i, Call("wait", "fail", [task |-> wk[i].task]))

\* main.go lines 252-256.
WaitCreate(i) == WaitTask(i, "createwait", "readhw")

\* Variant of ReadHardware without the empty-MAC test of lines 293-295.
ReadHardware_NoMacTest(i) ==
    /\ At(i, "readhw")
    /\ \/ Fatal(i, Call("readhw", "fail", None))
       \/ \E hw \in cfg.hardware :
            LET found == ScanHardware(HardwareOf(wk[i].devices, i, hw), 1,
                                      wk[i].hostname, wk[i].ip,
                                      [bootNet |-> NoDevice,
                                       data |-> EmptyRequestBody])
            IN  /\ wk' = [wk EXCEPT ![i].pc = "post",
                                    ![i].bootNet = found.bootNet,
                                    ![i].data = found.data,
                                    ![i].calls = Append(@,
                                       Call("readhw", "ok", [hw |-> hw]))]
                /\ Alive

\* main.go lines 260-295: read the hardware back, find the boot adapter,
\* build the request body; an empty MAC is log.Fatalf.
ReadHardware(i) ==
    /\ At(i, "readhw")
    /\ \/ Fatal(i, Call("readhw", "fail", None))
       \/ \E hw \in cfg.hardware :
            LET found == ScanHardware(HardwareOf(wk[i].devices, i, hw), 1,
                                      wk[i].hostname, wk[i].ip,
                                      [bootNet |-> NoDevice,
                                       data |-> EmptyRequestBody])
            IN  IF Len(found.data.Macaddress) = 0
                THEN Fatal(i, Call("readhw", "ok", [hw |-> hw]))
                ELSE /\ wk' = [wk EXCEPT ![i].pc = "post",
                                         ![i].bootNet = found.bootNet,
                                         ![i].data = found.data,
                                         ![i].calls = Append(@,
                                            Call("readhw", "ok", [hw |-> hw]))]
                     /\ Alive

\* main.go line 296 with sendApiRequest lines 497-510: POST /ks; only a
\* transport failure is log.Fatalf, the response status is just logged.
PostKs(i) ==
    /\ At(i, "post")
    /\ \/ \E status \in cfg.statuses :
            Goto(i, "poweron", Call("POST", status, wk[i].data))
       \/ Fatal(i, Call("POST", "fail", wk[i].data))

\* main.go lines 298-302: submit the power-on task.
PowerOn(i) ==
    /\ At(i, "poweron")
    /\ \/ /\ wk' = [wk EXCEPT ![i].pc = "poweronwait", ![i].task = "poweron",
                              ![i].calls = Append(@, Call("poweron", "ok", None))]
          /\ Alive
       \/ Fatal(i, Call("poweron", "fail", None))

\* main.go lines 304-308.
WaitPowerOn(i) == WaitTask(i, "poweronwait", "waitip1")

\* waitForIP lines 468-469 with the callers' log.Fatalf (lines 313-316,
\* 395-398): the select takes ctx.Done() and the wait returns ctx.Err().
WaitForIPCancelled(i, from) ==
    /\ At(i, from)
    /\ ctxCancelled
    /\ Fatal(i, Call("waitip", "cancelled", None))

\* Variant of WaitForIPPoll that accepts any address the guest reports.
WaitForIPPoll_AnyAddress(i, from, to) ==
    /\ At(i, from)
    /\ \/ Fatal(i, Call("waitip", "fail", None))
       \/ \E read \in GuestReads(wk[i].ip) :
            IF read # <<>>
            THEN Goto(i, to, Call("waitip", "ok", [read |-> read]))
            ELSE UNCHANGED vars

\* waitForIP lines 470-488: the ticker fires and the guest property is read;
\* a read error is returned (log.Fatalf in the caller), an address equal to
\* the target returns nil, anything else keeps the loop going.
WaitForIPPoll(i, from, to) ==
    /\ At(i, from)
    /\ \/ Fatal(i, Call("waitip", "fail", None))
       \/ \E read \in GuestReads(wk[i].ip) :
            IF read = IPString(wk[i].ip)
            THEN Goto(i, to, Call("waitip", "ok", [read |-> read]))
            ELSE UNCHANGED vars

\* Variant of WaitIP1 that gives the wait up after a poll without a match.
WaitIP1_GivesUp(i) ==
    \/ WaitForIPCancelled(i, "waitip1")
    \/ WaitForIPPoll(i, "waitip1", "finalnet")
    \/ /\ At(i, "waitip1")
       /\ Goto(i, "finalnet", Call("waitip", "gaveup", None))

\* main.go line 312: the first guest-IP wait.
WaitIP1(i) ==
    \/ WaitForIPCancelled(i, "waitip1")
    \/ WaitForIPPoll(i, "waitip1", "finalnet")

\* main.go lines 318-319: look the final network up (error ignored, a nil
\* newNet panics on use) and store its backing in bootNet, keeping err.
FinalNetwork(i) ==
    /\ At(i, "finalnet")
    /\ IF Len(cfg.networks) = 0
       THEN Panic(i, Call("finalnet", "index out of range", None))
       ELSE \/ Panic(i, Call("finalnet", "fail", None))
            \/ \E backingOk \in cfg.backings :
                 /\ wk' = [wk EXCEPT
                       ![i].pc = IF cfg.changemac THEN "shutdown" ELSE "editnic",
                       ![i].bootNet.backing =
                           IF backingOk THEN cfg.networks[1] ELSE "",
                       ![i].err = ~backingOk,
                       ![i].calls = Append(@,
                          Call("finalnet", IF backingOk THEN "ok" ELSE "nobacking",
                               None))]
                 /\ Alive

\* main.go lines 321-327: ask the guest to shut down.
ShutdownGuest(i) ==
    /\ At(i, "shutdown")
    /\ \/ /\ wk' = [wk EXCEPT ![i].pc = "pollpower", ![i].err = FALSE,
                              ![i].calls = Append(@, Call("shutdown", "ok", None))]
          /\ Alive
       \/ Fatal(i, Call("shutdown", "fail", None))

\* main.go lines 328-340: read the power state until it is poweredOff.
PollPowerState(i) ==
    /\ At(i, "pollpower")
    /\ \/ Fatal(i, Call("readpower", "fail", None))
       \/ Goto(i, "removenic", Call("readpower", "poweredOff", None))
       \/ UNCHANGED vars

\* newVM.Reconfigure as called at main.go lines 352-356, 375-379, 409-413:
\* the call's own error is dropped and the check that follows tests the err
\* left by an earlier statement; after a failed submission task is nil and
\* task.WaitForResult dereferences it.
Reconfigure(i, from, to, operation, device) ==
    /\ At(i, from)
    /\ \E submitted \in BOOLEAN :
         LET call == Call("reconfigure", IF submitted THEN "ok" ELSE "fail",
                          [operation |-> operation, device |-> device])
         IN  IF wk[i].err THEN Fatal(i, call)
             ELSE IF ~submitted THEN Panic(i, call)
             ELSE /\ wk' = [wk EXCEPT ![i].pc = to, ![i].bootNet = device,
                                      ![i].task = operation,
                                      ![i].calls = Append(@, call)]
                  /\ Alive

\* main.go lines 342-356: remove the boot adapter.
RemoveBootNic(i) ==
    Reconfigure(i, "removenic", "removewait", "remove", wk[i].bootNet)

\* main.go lines 358-362.
WaitRemove(i) == WaitTask(i, "removewait", "addnic")

\* main.go lines 364-379: clear the adapter's MAC and add it again.
AddNewNic(i) ==
    Reconfigure(i, "addnic", "addwait", "add",
                [wk[i].bootNet EXCEPT !.mac = <<>>])

\* main.go lines 381-385.
WaitAdd(i) == WaitTask(i, "addwait", "poweron2")

\* Variant of PowerOnAgain that goes straight to the DELETE, without the
\* second guest-IP wait.
PowerOnAgain_NoWait(i) ==
    /\ At(i, "poweron2")
    /\ \/ /\ wk' = [wk EXCEPT ![i].pc = "delete", ![i].task = "poweron",
                              ![i].calls = Append(@, Call("poweron", "ok", None))]
          /\ Alive
       \/ Fatal(i, Call("poweron", "fail", None))

\* main.go lines 387-392: power the VM on again; the task is not awaited.
PowerOnAgain(i) ==
    /\ At(i, "poweron2")
    /\ \/ /\ wk' = [wk EXCEPT ![i].pc = "waitip2", ![i].task = "poweron",
                              ![i].calls = Append(@, Call("poweron", "ok", None))]
          /\ Alive
       \/ Fatal(i, Call("poweron", "fail", None))

\* main.go lines 394-398: the second guest-IP wait.
WaitIP2(i) ==
    \/ WaitForIPCancelled(i, "waitip2")
    \/ WaitForIPPoll(i, "waitip2", "delete")

\* main.go lines 401-413: edit the boot adapter in place.
EditBootNic(i) ==
    Reconfigure(i, "editnic", "editwait", "edit", wk[i].bootNet)

\* main.go lines 414-419.
WaitEdit(i) == WaitTask(i, "editwait", "delete")

\* main.go lines 422-425 with sendApiRequest lines 511-527: DELETE
\* /ks/{mac}; then the worker returns.
DeleteKs(i) ==
    /\ At(i, "delete")
    /\ \/ \E status \in cfg.statuses :
            Return(i, Call("DELETE", status,
                           [path |-> DeletePath(wk[i].data)]))
       \/ Fatal(i, Call("DELETE", "fail", [path |-> DeletePath(wk[i].data)]))

\* One step of worker i.
Worker(i) ==
    \/ Connect(i) \/ FindDatacenter(i) \/ FindVirtualMachine(i)
    \/ GetFolders(i) \/ FindFolder(i) \/ FindResourcePool(i)
    \/ DecideGuestId(i) \/ BuildSpec(i) \/ CreateVM(i) \/ WaitCreate(i)
    \/ ReadHardware(i) \/ PostKs(i) \/ PowerOn(i) \/ WaitPowerOn(i)
    \/ WaitIP1(i) \/ FinalNetwork(i)
    \/ ShutdownGuest(i) \/ PollPowerState(i) \/ RemoveBootNic(i)
    \/ WaitRemove(i) \/ AddNewNic(i) \/ WaitAdd(i) \/ PowerOnAgain(i)
    \/ WaitIP2(i)
    \/ EditBootNic(i) \/ WaitEdit(i)
    \/ DeleteKs(i)

Next ==
    \/ MainValidate \/ MainParse \/ MainSpawn \/ MainStartWaiter
    \/ WaiterClose \/ Interrupt
    \/ MainSelectDone \/ MainSelectSignal \/ MainExit
    \/ \E i \in Started : Worker(i)

\* ------------------------------------------------------------ the systems
\* The fleet: up to MaxReplica concurrent workers, a narrow environment; the
\* backing-info read of line 319 may fail in the fleets of one.
FleetConfigs ==
    { [BaseConfig EXCEPT !.replica = r, !.changemac = cm, !.gateway = g,
                         !.namePrefix = t.text, !.nameCase = t,
                         !.backings = IF r = 1 THEN BOOLEAN ELSE {TRUE}] :
        r \in 0..MaxReplica, cm \in BOOLEAN,
        g \in {<<10, 0, 0, 1>>, <<10, 0, 1, 1>>},
        t \in {GoodNameCase, BadNameCase(T_esxi)} }

Init == InitWith(FleetConfigs)

Spec == Init /\ [][Next]_vars

\* One worker against every answer of the environment.
WorkerConfigs ==
    { [BaseConfig EXCEPT !.changemac = cm, !.networks = nets,
                         !.catalog = CatalogAnswers,
                         !.hardware = HardwareKinds,
                         !.statuses = {"2xx", "non2xx"},
                         !.backings = BOOLEAN] :
        cm \in BOOLEAN,
        nets \in {<<"pg1">>, <<"pg1", "pg2">>} }

InitWorker == InitWith(WorkerConfigs)

SpecWorker == InitWorker /\ [][Next]_vars

\* One worker for every shape of the VM: the storages and the networks.
NetworkLists ==
    {<<>>, <<"pg1">>, <<"pg1", "pg2">>, <<"bootpg", "pg2", "pg3">>}

DeviceConfigs ==
    { [BaseConfig EXCEPT !.changemac = cm, !.storages = StorageList(n),
                         !.networks = nets] :
        cm \in BOOLEAN, n \in 0..MaxStorages, nets \in NetworkLists }

InitDevices == InitWith(DeviceConfigs)

SpecDevices == InitDevices /\ [][Next]_vars

\* ------------------------------------------------ configuration-only system
ConfigSet ==
    { [BaseConfig EXCEPT !.replica = r, !.startIP = s, !.netmask = m,
                         !.gateway = g, !.namePrefix = t.text, !.nameCase = t,
                         !.domain = d] :
        r \in 0..MaxFleet, s \in StartIPs, m \in Netmasks, g \in Gateways,
        t \in NameCases, d \in Domains }

InitConfig == InitWith(ConfigSet)

NextConfig == MainValidate \/ MainParse \/ MainSpawn \/ MainStartWaiter

SpecConfig == InitConfig /\ [][NextConfig]_vars

\* ------------------------------------------------------------- properties
CallsOf(i) == wk[i].calls

\* Positions in worker i's call history that hold a call of operation op.
IdxOf(i, op) == {k \in 1..Len(CallsOf(i)) : CallsOf(i)[k].op = op}

\* Positions of the calls of operation op that ended with result res.
IdxRes(i, op, res) == {k \in IdxOf(i, op) : CallsOf(i)[k].res = res}

\* Positions at which an awaited task of the given kind completed.
IdxTaskDone(i, task) ==
    {k \in IdxRes(i, "wait", "ok") : CallsOf(i)[k].arg.task = task}

\* The backend reported worker i's host as existing.
Skipped(i) == IdxRes(i, "vmlookup", "found") # {}

\* Workers that were started and have not returned.
Unreturned == {i \in Started : wk[i].pc # "returned"}

\* Calls that create, power, reconfigure or reach the installer service.
EffectOps == {"createvm", "poweron", "shutdown", "reconfigure", "GET", "POST",
              "DELETE"}

\* C1: a worker whose VM lookup reported the host as existing has issued no
\* creation, power, reconfigure or installer call, has returned with its
\* join-counter decrement done, and the step that skips leaves the process
\* running.
C1_SkipIsSideEffectFree ==
    /\ [](\A i \in Started :
            Skipped(i) =>
               /\ \A k \in 1..Len(CallsOf(i)) : CallsOf(i)[k].op \notin EffectOps
               /\ wk[i].pc = "returned"
               /\ proc = "running" => wgCount = Cardinality(Unreturned))
    /\ [][\A i \in Started :
            (~Skipped(i) /\ Skipped(i)') =>
               (proc' = "running" /\ wgCount' = wgCount - 1)]_vars

\* A worker skipped its existing host while another worker of the same run
\* went on to create its VM.
C1_Witness ==
    \E i, j \in Started :
        /\ Skipped(i) /\ wk[i].pc = "returned" /\ proc = "running"
        /\ IdxOf(j, "createvm") # {}

\* C2: each worker issues at most one POST /ks; it carries the worker's own
\* hostname and allocated address, comes after the creation task completed
\* and before every power-on request; no power-on precedes the POST.
C2_PostOnceBeforePowerOn ==
    \A i \in Started :
        /\ Cardinality(IdxOf(i, "POST")) <= 1
        /\ \A k \in IdxOf(i, "POST") :
              /\ CallsOf(i)[k].arg.Hostname = wk[i].hostname
              /\ CallsOf(i)[k].arg.IP = IPString(AllocIP(cfg.startIP, i))
              /\ \A j \in Started \ {i} :
                    /\ CallsOf(i)[k].arg.Hostname # wk[j].hostname
                    /\ CallsOf(i)[k].arg.IP # IPString(wk[j].ip)
              /\ \E c \in IdxTaskDone(i, "create") : c < k
              /\ \A q \in IdxOf(i, "poweron") : k < q
        /\ \A q \in IdxOf(i, "poweron") : \E k \in IdxOf(i, "POST") : k < q

\* Two workers have both registered and requested power-on.
C2_Witness ==
    \E i, j \in Started :
        /\ i # j
        /\ IdxOf(i, "POST") # {} /\ IdxOf(i, "poweron") # {}
        /\ IdxOf(j, "POST") # {} /\ IdxOf(j, "poweron") # {}

\* Worker i reached Done: it returned after its DELETE was answered.
Done(i) ==
    /\ wk[i].pc = "returned"
    /\ \E k \in IdxOf(i, "DELETE") : CallsOf(i)[k].res # "fail"

\* C3: each worker issues at most one DELETE, after its last guest-IP wait
\* returned success (one wait in in-place mode, two in MAC-separation mode)
\* and with no wait after it; a worker that reached Done issued exactly one
\* POST and one DELETE, the POST first.
C3_DeleteOnceAfterLastWait ==
    \A i \in Started :
        /\ Cardinality(IdxOf(i, "DELETE")) <= 1
        /\ \A d \in IdxOf(i, "DELETE") :
              /\ Cardinality({k \in IdxRes(i, "waitip", "ok") : k < d})
                    = IF cfg.changemac THEN 2 ELSE 1
              /\ \A k \in IdxOf(i, "waitip") : k < d
        /\ Done(i) =>
              /\ Cardinality(IdxOf(i, "POST")) = 1
              /\ Cardinality(IdxOf(i, "DELETE")) = 1
              /\ \A k \in IdxOf(i, "POST") : \A d \in IdxOf(i, "DELETE") : k < d

\* A worker in MAC-separation mode reached Done.
C3_Witness ==
    \E i \in Started : cfg.changemac /\ Done(i)

\* Results that report a failed call.
FailResults == {"fail", "undecodable", "cancelled"}

\* The lookups whose failure vmCreateHandler answers with a plain return.
LookupOps == {"datacenter", "vmlookup", "folders", "folder", "respool"}

\* The last call of worker i failed.
LastFailed(i) ==
    /\ Len(CallsOf(i)) > 0
    /\ CallsOf(i)[Len(CallsOf(i))].res \in FailResults

WaitPcs == {"waitip1", "waitip2"}

\* C5 as stated: once the interrupt has been delivered while a worker is
\* inside waitForIP, that wait does not return success and the process does
\* not end with the wait still unreturned.
C5_InterruptCancelsWait ==
    [][\A i \in Started :
          (/\ proc = "running"
           /\ sigPending \/ outcome = "interrupted"
           /\ wk[i].pc \in WaitPcs)
          => /\ proc' # "exited"
             /\ wk'[i].pc \in WaitPcs \/ proc' # "running"]_vars

\* C6: main is at its select only after exactly replica workers were
\* started; it leaves the select either with the join counter at zero and
\* every started worker returned (the completed branch) or with an interrupt
\* buffered (the interrupted branch); a run logged as completed has every
\* one of its replica workers returned.
C6_JoinOnlyWhenAllReturned ==
    /\ [](mainPc \in {"select", "returned"} => Started = 0..(cfg.replica - 1))
    /\ [](outcome = "completed" =>
             /\ Started = 0..(cfg.replica - 1)
             /\ \A i \in Started : wk[i].pc = "returned")
    /\ [][(mainPc = "select" /\ mainPc' = "returned") =>
             \/ /\ outcome' = "completed"
                /\ wgCount = 0 /\ Unreturned = {}
                /\ Started = 0..(cfg.replica - 1)
             \/ /\ outcome' = "interrupted"
                /\ sigPending]_vars

\* A fleet of two was reported as completed, one host provisioned.
C6_Witness ==
    /\ outcome = "completed" /\ cfg.replica = 2
    /\ \E i \in Started : Done(i)

\* The decimal digit of weight 10^k of n.
Pow10(k) == IF k = 0 THEN 1 ELSE IF k = 1 THEN 10 ELSE IF k = 2 THEN 100
            ELSE IF k = 3 THEN 1000 ELSE 10000

DigitAt(n, k) == Digits[((n \div Pow10(k)) % 10) + 1]

\* Number of decimal digits of n < 10000.
NumDigits(n) == CHOOSE d \in 1..4 : n < Pow10(d) /\ (d = 1 \/ n >= Pow10(d - 1))

\* n in decimal, zero-padded on the left to at least width digits.
ZeroPadded(n, width) ==
    LET len == IF NumDigits(n) >= width THEN NumDigits(n) ELSE width
    IN  [k \in 1..len |-> IF len - k < NumDigits(n) THEN DigitAt(n, len - k)
                          ELSE "0"]

\* The host part the template asks for at index i.
ExpectedName(c, i) ==
    c.nameCase.prefix \o ZeroPadded(c.nameCase.start + i,
                                    IF c.nameCase.width < 0 THEN 0
                                    ELSE c.nameCase.width)

Pow2(b) == IF b = 0 THEN 1 ELSE IF b = 1 THEN 2 ELSE IF b = 2 THEN 4
           ELSE IF b = 3 THEN 8 ELSE IF b = 4 THEN 16 ELSE IF b = 5 THEN 32
           ELSE IF b = 6 THEN 64 ELSE 128

Bit(x, b) == (x \div Pow2(b)) % 2

\* Gateway and start address agree on every bit the netmask sets.
SameSubnet(c) ==
    \A k \in 1..4 : \A b \in 0..7 :
        Bit(c.netmask[k], b) = 1 => Bit(c.gateway[k], b) = Bit(c.startIP[k], b)

\* C8: validation fails exactly when gateway and start address differ on a
\* bit of the netmask; after a failure the run has ended with no worker
\* started, hence with no backend or installer call made.
C8_ValidationIsSubnetCheck ==
    /\ mainPc # "validate" => (outcome = "invalid address" <=> ~SameSubnet(cfg))
    /\ ~SameSubnet(cfg) => (Started = {} /\ wgCount = 0)
    /\ outcome = "invalid address" => proc = "fatal"

\* Start 10.0.0.10/24 with gateway 10.0.1.1 was rejected.
C8_Witness ==
    /\ cfg.startIP = <<10, 0, 0, 10>> /\ cfg.netmask = <<255, 255, 255, 0>>
    /\ cfg.gateway = <<10, 0, 1, 1>> /\ cfg.replica = 2
    /\ outcome = "invalid address" /\ proc = "fatal" /\ Started = {}

\* C9 as stated: worker i gets the start address with start's last octet
\* plus i, and a configuration whose last octet would pass 255 starts no
\* worker.
C9_LastOctetNeverWraps ==
    /\ \A i \in Started :
          wk[i].ip = <<cfg.startIP[1], cfg.startIP[2], cfg.startIP[3],
                       cfg.startIP[4] + i>>
    /\ (cfg.replica > 0 /\ cfg.startIP[4] + (cfg.replica - 1) > 255)
          => Started = {}

\* The unit numbers of the disks of a device list, in list order.
UnitsOf(devices) ==
    [k \in 1..Len(DisksOf(devices)) |-> DisksOf(devices)[k].unit]

\* C10: the device list of a creation request holds one disk per configured
\* storage, in configuration order; disk i has unit number i below 7 and i+1
\* from 7 on, so no disk has unit 7 and no two disks share a unit; eight
\* storages give 0,1,2,3,4,5,6,8.
C10_DiskUnitNumbers ==
    \A i \in Started :
        IdxOf(i, "createvm") # {} =>
           LET disks == DisksOf(wk[i].devices)
               n == Len(cfg.storages)
           IN  /\ Len(disks) = n
               /\ \A k \in 1..n :
                     /\ disks[k].unit = IF k - 1 < 7 THEN k - 1 ELSE k
                     /\ disks[k].unit # 7
                     /\ disks[k].fileIndex = k - 1
                     /\ disks[k].datastore = cfg.storages[k].datastore
                     /\ disks[k].capacityKB = cfg.storages[k].capacityGB * 1048576
               /\ \A k, m \in 1..n : k # m => disks[k].unit # disks[m].unit
               /\ n = 8 => UnitsOf(wk[i].devices) = <<0, 1, 2, 3, 4, 5, 6, 8>>

\* A creation request with eight disks was submitted.
C10_Witness ==
    \E i \in Started :
        /\ IdxOf(i, "createvm") # {}
        /\ Len(cfg.storages) = 8
        /\ UnitsOf(wk[i].devices) = <<0, 1, 2, 3, 4, 5, 6, 8>>

\* The backings of the adapters of a device list, in list order.
BackingsOf(devices) ==
    [k \in 1..Len(NicsOf(devices)) |-> NicsOf(devices)[k].backing]

\* C11: the device list of a creation request holds one adapter per
\* configured network, in configuration order; the first adapter is backed
\* by the boot network whatever networks[0] names, every later adapter by the
\* network listed at its own position.
C11_AdaptersFollowNetworks ==
    \A i \in Started :
        IdxOf(i, "createvm") # {} =>
           LET nics == NicsOf(wk[i].devices)
               n == Len(cfg.networks)
           IN  /\ Len(nics) = n
               /\ \A k \in 1..n :
                     nics[k].backing = IF k = 1 THEN cfg.bootPortGroup
                                       ELSE cfg.networks[k]
               /\ \A k \in 1..Len(wk[i].devices) :
                     wk[i].devices[k].kind = "vmxnet3" =>
                        k > Len(wk[i].devices) - n

\* A creation request for networks pg1, pg2 was submitted with adapters
\* backed by bootpg, pg2.
C11_Witness ==
    \E i \in Started :
        /\ IdxOf(i, "createvm") # {}
        /\ cfg.networks = <<"pg1", "pg2">>
        /\ cfg.bootPortGroup = "bootpg"
        /\ BackingsOf(wk[i].devices) = <<"bootpg", "pg2">>

\* The guest identifier the catalog version v stands for.
GuestIdFor(v) ==
    CASE v = "6.0.0" -> "vmkernel6Guest"
      [] v \in {"6.5.0", "6.7.0"} -> "vmkernel65Guest"
      [] OTHER -> "vmkernel7Guest"

\* Worker i has submitted no creation request.
NothingCreated(i) == IdxOf(i, "createvm") = {}

\* C12 as stated: an answered catalog query for an absent filename ends the
\* run with nothing created; for a filename that is present, whatever its
\* version string, the worker goes on with the identifier of that version,
\* and its creation request carries it.
C12_GuestIdFromCatalog ==
    \A i \in Started : \A k \in IdxRes(i, "GET", "ok") :
        LET v == CallsOf(i)[k].arg.version
        IN  IF v = "absent"
            THEN proc = "fatal" /\ NothingCreated(i)
            ELSE /\ wk[i].guestId = GuestIdFor(v)
                 /\ \A c \in IdxOf(i, "createvm") :
                       CallsOf(i)[c].res = "ok" =>
                          CallsOf(i)[c].arg.guestId = GuestIdFor(v)

\* C12 as amended: the same, with a filename whose catalog version is the
\* empty string treated like an absent filename.
C12_GuestIdFromNonEmptyVersion ==
    \A i \in Started : \A k \in IdxRes(i, "GET", "ok") :
        LET v == CallsOf(i)[k].arg.version
        IN  IF v \in {"absent", ""}
            THEN /\ proc = "fatal" /\ NothingCreated(i)
                 /\ k = Len(CallsOf(i))
            ELSE /\ wk[i].guestId = GuestIdFor(v)
                 /\ \A c \in IdxOf(i, "createvm") :
                       /\ c > k
                       /\ CallsOf(i)[c].res = "ok" =>
                             CallsOf(i)[c].arg.guestId = GuestIdFor(v)

\* A creation request with vmkernel65Guest was submitted for version 6.7.0.
C12_Witness ==
    \E i \in Started : \E k \in IdxRes(i, "GET", "ok") :
        /\ CallsOf(i)[k].arg.version = "6.7.0"
        /\ \E c \in IdxRes(i, "createvm", "ok") :
              CallsOf(i)[c].arg.guestId = "vmkernel65Guest"

\* C13 as stated: a registration POST answered with a non-2xx status ends
\* the run, and the worker submits no power-on after it.
C13_Non2xxPostIsFatal ==
    \A i \in Started : \A k \in IdxRes(i, "POST", "non2xx") :
        /\ proc = "fatal"
        /\ k = Len(CallsOf(i))
        /\ \A p \in IdxOf(i, "poweron") : p < k

\* The call worker i logged last in the next state.
LastCallNext(i) == wk'[i].calls[Len(wk'[i].calls)]

\* The step ends worker i's guest-IP wait with success on a matching read.
WaitSucceeds(i) ==
    /\ LastCallNext(i).op = "waitip" /\ LastCallNext(i).res = "ok"
    /\ LastCallNext(i).arg.read = IPString(AllocIP(cfg.startIP, i))
    /\ wk'[i].pc = IF wk[i].pc = "waitip1" THEN "finalnet" ELSE "delete"
    /\ proc' = "running"

\* The step ends worker i's guest-IP wait with the cancellation error.
WaitCancelled(i) ==
    /\ LastCallNext(i).op = "waitip" /\ LastCallNext(i).res = "cancelled"
    /\ ctxCancelled
    /\ proc' = "fatal"

\* The step ends worker i's guest-IP wait with the error of the property read.
WaitReadFails(i) ==
    /\ LastCallNext(i).op = "waitip" /\ LastCallNext(i).res = "fail"
    /\ proc' = "fatal"

\* C14 as stated: every step that ends a worker's guest-IP wait is a success
\* on a read equal to the target address or the cancellation error of a
\* cancelled run; any other step of a waiting worker leaves it waiting.
C14_WaitEndsTwoWays ==
    [][\A i \in Started :
          (wk[i].pc \in WaitPcs /\ wk'[i] # wk[i]) =>
             (Len(wk'[i].calls) = Len(wk[i].calls) + 1
                /\ (WaitSucceeds(i) \/ WaitCancelled(i)))]_vars

\* C14 as amended: the wait ends in exactly three ways, the third being the
\* error of a failed guest property read.
C14_WaitEndsThreeWays ==
    [][\A i \in Started :
          (wk[i].pc \in WaitPcs /\ wk'[i] # wk[i]) =>
             (Len(wk'[i].calls) = Len(wk[i].calls) + 1
                /\ (WaitSucceeds(i) \/ WaitCancelled(i) \/ WaitReadFails(i)))]_vars

\* A worker's wait ended with the cancellation error after the interrupt.
C14_Witness ==
    \E i \in Started :
        /\ outcome = "interrupted" /\ proc = "fatal"
        /\ Len(CallsOf(i)) > 0
        /\ CallsOf(i)[Len(CallsOf(i))].op = "waitip"
        /\ CallsOf(i)[Len(CallsOf(i))].res = "cancelled"

\* The template text has a character c.
HasChar(text, c) == \E k \in 1..Len(text) : text[k] = c

\* The three malformed templates of C15: no {...} group, a start value that
\* is not an integer, a fixed= value that is not an integer.
MalformedTemplates ==
    { T_esxi,
      T_esxi \o <<"{", "a", "}">>,
      T_esxi \o <<"{", "1", ",">> \o T_fixed \o <<"=", "x", "}">> }

\* C15 as stated: once main has parsed one of the three malformed templates
\* the run has ended with a reported fatal error and no worker was started.
C15_MalformedTemplateIsReported ==
    (/\ cfg.namePrefix \in MalformedTemplates
     /\ mainPc \notin {"validate", "parse"}
     /\ outcome # "invalid address")
    => (proc = "fatal" /\ outcome = "bad name_prefix" /\ Started = {})

\* What a logged call is, told apart by the reconfigure operation and by the
\* task a wait is for.
StepOf(c) ==
    IF c.op = "reconfigure" THEN <<c.op, c.arg.operation>>
    ELSE IF c.op = "wait" THEN <<c.op, c.arg.task>>
    ELSE <<c.op, "">>

\* The calls of worker i after the lookup of the final network.
AfterFinalNet(i) ==
    IF IdxOf(i, "finalnet") = {} THEN <<>>
    ELSE LET f == CHOOSE k \in IdxOf(i, "finalnet") : TRUE
         IN  SubSeq(CallsOf(i), f + 1, Len(CallsOf(i)))

\* The steps of MAC-separation mode in the order C16 gives them.
MacSeparationSteps ==
    << <<"shutdown", "">>, <<"readpower", "">>,
       <<"reconfigure", "remove">>, <<"wait", "remove">>,
       <<"reconfigure", "add">>, <<"wait", "add">>,
       <<"poweron", "">>, <<"waitip", "">>, <<"DELETE", "">> >>

\* Results with which a call lets the worker go on.
GoOnResults == {"ok", "poweredOff", "2xx", "non2xx"}

\* C16 as stated: in MAC-separation mode the calls after the final network
\* lookup are a prefix of shutdown, poweredOff observed, remove submitted and
\* completed, add submitted and completed, power-on, guest-IP wait, DELETE,
\* each begun only after its predecessor succeeded; the adapter added has the
\* final network's backing and an empty MAC; the remove follows a poweredOff
\* observation.
C16_MacSeparationOrder ==
    \A i \in Started :
        cfg.changemac =>
           LET tail == AfterFinalNet(i)
           IN  /\ Cardinality(IdxOf(i, "finalnet")) <= 1
               /\ Len(tail) <= Len(MacSeparationSteps)
               /\ \A k \in 1..Len(tail) :
                     /\ StepOf(tail[k]) = MacSeparationSteps[k]
                     /\ k < Len(tail) => tail[k].res \in GoOnResults
                     /\ StepOf(tail[k]) = <<"reconfigure", "add">> =>
                           /\ tail[k].arg.device.backing = cfg.networks[1]
                           /\ tail[k].arg.device.mac = <<>>
                     /\ StepOf(tail[k]) = <<"reconfigure", "remove">> =>
                           tail[k - 1].res = "poweredOff"

\* The task a successful call submits, "none" for the calls that submit none.
TaskOf(c) ==
    IF c.res # "ok" THEN "none"
    ELSE IF c.op = "createvm" THEN "create"
    ELSE IF c.op = "poweron" THEN "poweron"
    ELSE IF c.op = "reconfigure" THEN c.arg.operation
    ELSE "none"

\* C17 as stated: the call that follows the submission of a task is the wait
\* for that task, and a worker inside a guest-IP wait has no task pending.
C17_EveryTaskAwaited ==
    \A i \in Started :
        /\ \A k \in 1..(Len(CallsOf(i)) - 1) :
              TaskOf(CallsOf(i)[k]) # "none" =>
                 /\ CallsOf(i)[k + 1].op = "wait"
                 /\ CallsOf(i)[k + 1].arg.task = TaskOf(CallsOf(i)[k])
        /\ wk[i].pc \in WaitPcs => wk[i].task = "none"

\* C18 as stated: without MAC separation a worker issues no guest shutdown,
\* no remove or add reconfigure and at most one power-on; it issues at most
\* one reconfigure, an edit that follows the final network lookup, whose
\* adapter is backed by the first configured network and carries the MAC the
\* worker read after creation; a worker that reached Done issued exactly one.
C18_InPlaceEditOnly ==
    \A i \in Started :
        ~cfg.changemac =>
           /\ IdxOf(i, "shutdown") = {} /\ IdxOf(i, "readpower") = {}
           /\ Cardinality(IdxOf(i, "poweron")) <= 1
           /\ Cardinality(IdxOf(i, "reconfigure")) <= 1
           /\ Done(i) => Cardinality(IdxRes(i, "reconfigure", "ok")) = 1
           /\ \A k \in IdxOf(i, "reconfigure") :
                 /\ CallsOf(i)[k].arg.operation = "edit"
                 /\ CallsOf(i)[k - 1].op = "finalnet"
                 /\ CallsOf(i)[k].arg.device.backing = cfg.networks[1]
                 /\ CallsOf(i)[k].arg.device.mac = wk[i].data.Macaddress
                 /\ CallsOf(i)[k].arg.device.mac # <<>>

\* C19: after a hardware read that shows no adapter labelled as the first
\* network adapter, or shows it with an empty MAC, the run has ended with no
\* POST and no power-on issued by that worker; no POST carries an empty MAC.
C19_NoBootMacIsFatal ==
    \A i \in Started :
        /\ \A k \in IdxRes(i, "readhw", "ok") :
              CallsOf(i)[k].arg.hw \in {"nomac", "nolabel"} =>
                 /\ proc = "fatal"
                 /\ k = Len(CallsOf(i))
                 /\ IdxOf(i, "POST") = {} /\ IdxOf(i, "poweron") = {}
        /\ \A p \in IdxOf(i, "POST") : CallsOf(i)[p].arg.Macaddress # <<>>
        /\ \A p \in IdxOf(i, "POST") \cup IdxOf(i, "poweron") :
              \E k \in IdxRes(i, "readhw", "ok") :
                 k < p /\ CallsOf(i)[k].arg.hw = "normal"

\* The run ended at a hardware list without a first network adapter.
C19_Witness ==
    \E i \in Started : \E k \in IdxRes(i, "readhw", "ok") :
        /\ CallsOf(i)[k].arg.hw = "nolabel"
        /\ proc = "fatal"
        /\ IdxOf(i, "POST") = {} /\ IdxOf(i, "poweron") = {}
        /\ IdxRes(i, "wait", "ok") # {}

\* A MAC address with every colon turned into a dash.
Dashed(mac) == [k \in 1..Len(mac) |-> IF mac[k] = ":" THEN "-" ELSE mac[k]]

\* C20: every DELETE of a worker follows its POST and is addressed to /ks/
\* followed by the POST's MAC address with dashes for colons, in both modes;
\* the add request of MAC-separation mode carries an empty MAC and leaves
\* that address unchanged.
C20_DeleteKeyedByPostMac ==
    \A i \in Started : \A d \in IdxOf(i, "DELETE") :
        /\ \E p \in IdxOf(i, "POST") :
              /\ p < d
              /\ CallsOf(i)[p].arg.Macaddress # <<>>
              /\ CallsOf(i)[d].arg.path =
                    <<"/", "k", "s", "/">> \o Dashed(CallsOf(i)[p].arg.Macaddress)
        /\ \A c \in 1..Len(CallsOf(i)[d].arg.path) :
              CallsOf(i)[d].arg.path[c] # ":"
        /\ cfg.changemac =>
              \E a \in IdxRes(i, "reconfigure", "ok") :
                 /\ a < d
                 /\ CallsOf(i)[a].arg.operation = "add"
                 /\ CallsOf(i)[a].arg.device.mac = <<>>

\* A worker in MAC-separation mode sent its DELETE to /ks/aa-00-01 after
\* re-adding the adapter with an empty MAC.
C20_Witness ==
    \E i \in Started : \E d \in IdxOf(i, "DELETE") :
        /\ cfg.changemac /\ Done(i)
        /\ CallsOf(i)[d].arg.path =
              <<"/", "k", "s", "/", "a", "a", "-", "0", "0", "-", "0", "1">>
        /\ \E a \in IdxRes(i, "reconfigure", "ok") :
              CallsOf(i)[a].arg.operation = "add" /\ CallsOf(i)[a].arg.device.mac = <<>>

\* Calls that shut the guest down or reconfigure an adapter.
MoveOps == {"shutdown", "reconfigure"}

\* C21: in both modes every guest-shutdown request and every adapter
\* reconfigure of a worker comes after a guest-IP wait of that worker that
\* returned success on a read equal to the allocated address, and the first
\* guest-IP wait has nothing but its own success between the power-on wait
\* and the final network lookup.
C21_NoMoveBeforeGuestIP ==
    \A i \in Started : \A k \in 1..Len(CallsOf(i)) :
        /\ CallsOf(i)[k].op \in MoveOps =>
              \E w \in IdxRes(i, "waitip", "ok") :
                 /\ w < k
                 /\ CallsOf(i)[w].arg.read = IPString(AllocIP(cfg.startIP, i))
                 /\ \A m \in 1..w : CallsOf(i)[m].op \notin MoveOps
        /\ CallsOf(i)[k].op = "finalnet" =>
              /\ k > 1
              /\ CallsOf(i)[k - 1].op = "waitip" /\ CallsOf(i)[k - 1].res = "ok"

\* In in-place mode the adapter was edited after the guest reported the
\* allocated address.
C21_Witness ==
    \E i \in Started : \E k \in IdxRes(i, "reconfigure", "ok") :
        /\ ~cfg.changemac
        /\ CallsOf(i)[k].arg.operation = "edit"
        /\ \E w \in IdxRes(i, "waitip", "ok") :
              w < k /\ CallsOf(i)[w].arg.read = IPString(wk[i].ip)

\* C22 as stated: in a run reported as completed every host of the fleet was
\* skipped because it existed or was provisioned up to its DELETE.
C22_CompletedMeansAllDone ==
    outcome = "completed" =>
       \A i \in 0..(cfg.replica - 1) :
          /\ i \in Started
          /\ Skipped(i) \/ Done(i)

\* Addresses a and b agree on every bit the netmask sets.
InOneSubnet(a, b, netmask) ==
    \A k \in 1..4 : \A b2 \in 0..7 :
        Bit(netmask[k], b2) = 1 => Bit(a[k], b2) = Bit(b[k], b2)

\* C23 as stated: the address of every started worker lies in the gateway's
\* subnet under the configured netmask, and two workers never hold the same
\* address.
C23_AllocatedInSubnetAndDistinct ==
    /\ \A i \in Started : InOneSubnet(wk[i].ip, cfg.gateway, cfg.netmask)
    /\ \A i, j \in Started : i # j => wk[i].ip # wk[j].ip

\* No call has failed, the process was not ended by an error and no
\* interrupt has arrived.
NoTrouble ==
    /\ proc \in {"running", "exited"}
    /\ ~sigPending /\ outcome # "interrupted"
    /\ \A i \in Started : \A k \in 1..Len(CallsOf(i)) :
          CallsOf(i)[k].res \notin FailResults

\* ------------------------------------------------ fleet under fair scheduling
\* Well-formed configurations: both modes for fleets of up to two, in-place
\* mode for larger ones.
LiveConfigs ==
    { c \in { [BaseConfig EXCEPT !.replica = r, !.changemac = cm,
                                 !.catalog = {"7.0.3"},
                                 !.hardware = {"normal"}] :
                 r \in 0..MaxLive, cm \in BOOLEAN } :
        c.changemac => c.replica <= 2 }

InitLive == InitWith(LiveConfigs)

\* A step of worker i in which no call fails.
WorkerNoTrouble(i) == Worker(i) /\ NoTrouble'

\* The runs without a failing call and without an interrupt.
NextLive ==
    \/ MainValidate \/ MainParse \/ MainSpawn \/ MainStartWaiter
    \/ WaiterClose \/ MainSelectDone \/ MainExit
    \/ \E i \in Started : WorkerNoTrouble(i)

\* The Go scheduler runs every runnable goroutine: main up to its select, the
\* waiter goroutine, the done branch of the select and each worker; a task
\* that completes, a guest that reports its address and a guest that powers
\* off are the worker's steps out of its wait loops.  The parse step is
\* enabled exactly when the running main is at "parse" and always leaves it,
\* so its weak fairness is written as that condition being false infinitely
\* often.
Fairness ==
    /\ WF_vars(MainValidate) /\ WF_vars(MainSpawn)
    /\ []<>(~(proc = "running" /\ mainPc = "parse"))
    /\ WF_vars(MainStartWaiter) /\ WF_vars(WaiterClose)
    /\ WF_vars(MainSelectDone)
    /\ \A i \in 0..(MaxLive - 1) : WF_vars(WorkerNoTrouble(i))

SpecLive == InitLive /\ [][NextLive]_vars /\ Fairness

\* Every host of the fleet has a worker that returned, and main took the
\* completed branch.
AllReturnedAndCompleted ==
    /\ Started = 0..(cfg.replica - 1)
    /\ \A i \in Started : wk[i].pc = "returned"
    /\ outcome = "completed"

\* C24: under fair scheduling a run in which no call fails and no interrupt
\* arrives reaches the completed branch with every worker returned; a worker
\* decrements the join counter in the step in which it returns, by one, and
\* never steps again, and nothing else lowers the counter while the process
\* runs.
C24_FairRunCompletes ==
    /\ ([]NoTrouble) => <>AllReturnedAndCompleted
    /\ [][\A i \in Started :
             /\ (wk[i].pc # "returned" /\ wk'[i].pc = "returned")
                   => wgCount' = wgCount - 1
             /\ wk[i].pc = "returned" => wk'[i] = wk[i]
             /\ (proc' = "running" /\ wgCount' < wgCount)
                   => \E j \in Started :
                         wk[j].pc # "returned" /\ wk'[j].pc = "returned"]_vars

\* A fleet of two in MAC-separation mode completed with both hosts
\* provisioned and the join counter at zero.
C24_Witness ==
    /\ cfg.replica = 2 /\ cfg.changemac
    /\ proc = "running" /\ outcome = "completed" /\ wgCount = 0
    /\ \A i \in Started : Done(i)
    /\ Started = {0, 1}

====
